---- MODULE Spec2Model ----
(***************************************************************************)
(* Model of NpmUtils (ext-src/packages/npm/NpmUtils.ts): the dependency    *)
(* listing normaliser of the plugin.  JavaScript strings are sequences of  *)
(* one-character strings; `undefined` for an optional value is the empty   *)
(* sequence <<>> and a present value v is <<v>>.                            *)
(***************************************************************************)
EXTENDS Integers, Sequences, FiniteSets, TLC

VARIABLES manifestType, pc, stdout, stderr, obj, objTopLevel, result, error

vars == <<manifestType, pc, stdout, stderr, obj, objTopLevel, result, error>>

-----------------------------------------------------------------------------
(* Bounds of the input space *)

MaxTokLen == 4
MaxLines == 2
MaxRoot == 2
MaxDeclared == 2

-----------------------------------------------------------------------------
(* Manifest type selectors and characters *)

YARN_LOCK == "yarn.lock"
NPM_SHRINKWRAP_JSON == "npm-shrinkwrap.json"
PACKAGE_LOCK_JSON == "package-lock.json"
OTHER_MANIFEST == "pom.xml"

NL == "\n"
SP == " "
AT == "@"
PCT40 == <<"%", "4", "0">>
DEDUPED == <<"d", "e", "d", "u", "p", "e", "d">>

\* UTF-16 code unit of each character the model uses
Code(c) ==
  CASE c = "\n" -> 10 [] c = " " -> 32 [] c = "%" -> 37 [] c = "-" -> 45
    [] c = "." -> 46 [] c = "/" -> 47 [] c = "0" -> 48 [] c = "4" -> 52
    [] c = ":" -> 58 [] c = "<" -> 60 [] c = "=" -> 61 [] c = ">" -> 62
    [] c = "@" -> 64 [] c = "^" -> 94 [] c = "a" -> 97 [] c = "b" -> 98
    [] c = "c" -> 99 [] c = "d" -> 100 [] c = "e" -> 101 [] c = "p" -> 112
    [] c = "r" -> 114 [] c = "u" -> 117 [] c = "~" -> 126

-----------------------------------------------------------------------------
(* JavaScript string primitives *)

\* characters m..n of s, clipped to the string as substr and slice clip
Slice(s, m, n) ==
  LET lo == IF m < 1 THEN 1 ELSE m
      hi == IF n > Len(s) THEN Len(s) ELSE n
  IN [k \in 1..(hi - lo + 1) |-> s[lo + k - 1]]

\* a < b for strings: lexicographic on code units
RECURSIVE StrLess(_, _)
StrLess(a, b) ==
  IF b = <<>> THEN FALSE
  ELSE IF a = <<>> THEN TRUE
  ELSE IF Code(Head(a)) < Code(Head(b)) THEN TRUE
  ELSE IF Code(Head(a)) > Code(Head(b)) THEN FALSE
  ELSE StrLess(Tail(a), Tail(b))

\* index of the first occurrence of pat in s, 0 when there is none
IndexOf(s, pat) ==
  LET hits == {i \in 1..(Len(s) - Len(pat) + 1) : Slice(s, i, i + Len(pat) - 1) = pat}
  IN IF hits = {} THEN 0 ELSE CHOOSE i \in hits : \A j \in hits : i <= j

\* String.prototype.includes
Includes(s, pat) == IndexOf(s, pat) # 0

\* String.prototype.split with a one-character separator
RECURSIVE Split(_, _)
Split(s, sep) ==
  LET k == IndexOf(s, <<sep>>)
  IN IF k = 0 THEN <<s>>
     ELSE <<Slice(s, 1, k - 1)>> \o Split(Slice(s, k + 1, Len(s)), sep)

\* String.prototype.trim
RECURSIVE TrimLeft(_)
TrimLeft(s) == IF s # <<>> /\ Head(s) \in {SP, NL} THEN TrimLeft(Tail(s)) ELSE s

RECURSIVE TrimRight(_)
TrimRight(s) ==
  IF s # <<>> /\ s[Len(s)] \in {SP, NL} THEN TrimRight(Slice(s, 1, Len(s) - 1)) ELSE s

Trim(s) == TrimRight(TrimLeft(s))

\* String.prototype.replace(pat, rep) with a string pattern: first occurrence only
Replace(s, pat, rep) ==
  LET k == IndexOf(s, pat)
  IN IF k = 0 THEN s
     ELSE Slice(s, 1, k - 1) \o rep \o Slice(s, k + Len(pat), Len(s))

-----------------------------------------------------------------------------
(* NpmPackage: the record type built by the parsers and the flattener *)

NpmPackage(name, version, hash, isTransitive, dependencyType) ==
  [Name |-> name, Version |-> version, Hash |-> hash,
   IsTransitive |-> isTransitive, DependencyType |-> dependencyType,
   dependencies |-> <<>>]

\* new NpmPackage(name, version, hash): flags left to the constructor's defaults
NpmPackageDefault(name, version, hash) ==
  NpmPackage(name, version, hash, TRUE, "dependency")

\* canonical identifier built from name and version
toPurl(p) == p.Name \o <<AT>> \o (IF p.Version = <<>> THEN <<>> ELSE p.Version[1])

\* a call that either returns a value or throws
Return(v) == [threw |-> FALSE, value |-> v]
Throw == [threw |-> TRUE, value |-> <<>>]

-----------------------------------------------------------------------------
(* Line-list parsing *)

\* isRegularVersion without the caret test
isRegularVersion_noCaret(version) ==
  IF Includes(version, <<">", "=">>) THEN FALSE
  ELSE IF Includes(version, <<"<", "=">>) THEN FALSE
  ELSE IF Includes(version, <<"~">>) THEN FALSE
  ELSE IF Includes(version, <<"<">>) THEN FALSE
  ELSE IF Includes(version, <<">">>) THEN FALSE
  ELSE TRUE

isRegularVersion(version) ==
  IF Includes(version, <<"^">>) THEN FALSE
  ELSE IF Includes(version, <<">", "=">>) THEN FALSE
  ELSE IF Includes(version, <<"<", "=">>) THEN FALSE
  ELSE IF Includes(version, <<"~">>) THEN FALSE
  ELSE IF Includes(version, <<"<">>) THEN FALSE
  ELSE IF Includes(version, <<">">>) THEN FALSE
  ELSE TRUE

removeScopeSymbolFromName(name) ==
  IF Slice(name, 1, 1) = <<AT>>
  THEN PCT40 \o Slice(name, 2, Len(name))
  ELSE name

setAndReturnNpmPackage(splitParts) ==
  LET newName == removeScopeSymbolFromName(splitParts[Len(splitParts)])
      newSplit == Split(newName, AT)
      name == newSplit[1]
      version == IF Len(newSplit) >= 2 THEN <<newSplit[2]>> ELSE <<>>
  IN IF name # <<>> /\ version # <<>>
     THEN Return(NpmPackageDefault(Replace(name, PCT40, <<AT>>), version, <<>>))
     ELSE Throw

\* uniqBy with the deduplication left out
uniqBy_keepAll(list) == list

\* _.uniqBy(list, x => x.toPurl()): the first record of each identifier is kept
RECURSIVE uniqBy(_)
uniqBy(list) ==
  IF list = <<>> THEN <<>>
  ELSE LET init == uniqBy(Slice(list, 1, Len(list) - 1))
           x == list[Len(list)]
       IN IF \E j \in 1..Len(init) : toPurl(init[j]) = toPurl(x)
          THEN init
          ELSE Append(init, x)

\* the comparator with its two results exchanged
compareName_descending(a, b) ==
  IF StrLess(b.Name, a.Name) THEN -1
  ELSE IF StrLess(a.Name, b.Name) THEN 1
  ELSE 0

\* the comparator handed to Array.prototype.sort
compareName(a, b) ==
  IF StrLess(b.Name, a.Name) THEN 1
  ELSE IF StrLess(a.Name, b.Name) THEN -1
  ELSE 0

\* list.sort(compareName): stable; x goes after every record not above it
RECURSIVE sortDependencyList(_)
sortDependencyList(list) ==
  IF list = <<>> THEN <<>>
  ELSE LET init == sortDependencyList(Slice(list, 1, Len(list) - 1))
           x == list[Len(list)]
           k == Cardinality({i \in 1..Len(init) : compareName(init[i], x) <= 0})
       IN Slice(init, 1, k) \o <<x>> \o Slice(init, k + 1, Len(init))

\* the forEach body of parseYarnList applied to lines index..Len(results)
RECURSIVE yarnLines(_, _)
yarnLines(results, index) ==
  IF index > Len(results) THEN <<>>
  ELSE LET splitParts == Split(Trim(results[index]), SP)
           pkg == setAndReturnNpmPackage(splitParts)
           rest == yarnLines(results, index + 1)
       IN IF index = 1 THEN rest
          ELSE IF ~isRegularVersion(splitParts[Len(splitParts)]) THEN rest
          ELSE IF pkg.threw THEN rest
          ELSE <<pkg.value>> \o rest

parseYarnList(output) ==
  sortDependencyList(uniqBy(yarnLines(Split(output, NL), 1)))

\* the forEach body of parseNpmList applied to lines index..Len(results)
RECURSIVE npmLines(_, _)
npmLines(results, index) ==
  IF index > Len(results) THEN <<>>
  ELSE LET splitParts == Split(Trim(results[index]), SP)
           pkg == setAndReturnNpmPackage(splitParts)
           rest == npmLines(results, index + 1)
       IN IF index = 1 THEN rest
          ELSE IF splitParts[Len(splitParts)] = DEDUPED THEN rest
          ELSE IF pkg.threw THEN rest
          ELSE <<pkg.value>> \o rest

parseNpmList(output) ==
  sortDependencyList(uniqBy(npmLines(Split(output, NL), 1)))

-----------------------------------------------------------------------------
(* Shrinkwrap tree flattening and reconciliation with package.json *)

\* Object.keys(array).map(k => new NpmPackage(k, array[k].version, hash, true, type));
\* a dictionary is the sequence of its entries in key order, <<>> when undefined
extractInfo(array) ==
  IF array = <<>> THEN Throw
  ELSE Return([i \in 1..Len(array[1]) |->
                 NpmPackage(array[1][i].name, array[1][i].version, <<>>, TRUE,
                            IF array[1][i].dev THEN "devDependency" ELSE "dependency")])

\* Object.keys(array).map(k => new NpmPackage(k, array[k].split(":")[1], hash, false))
extractPackageJsonInfo(array) ==
  IF array = <<>> THEN Throw
  ELSE Return([i \in 1..Len(array[1]) |->
                 LET parts == Split(array[1][i].spec, ":")
                 IN NpmPackage(array[1][i].name,
                               IF Len(parts) >= 2 THEN <<parts[2]>> ELSE <<>>,
                               <<>>, FALSE, "dependency")])

RECURSIVE flattenDependencies(_)
flattenDependencies(dependencies) ==
  IF dependencies = <<>> THEN <<>>
  ELSE LET dependency == Head(dependencies)
           nested == IF dependency.dependencies # <<>>
                     THEN flattenDependencies(extractInfo(dependency.dependencies).value)
                     ELSE <<>>
       IN <<dependency>> \o nested \o flattenDependencies(Tail(dependencies))

\* the inner loop over flatDependencies for one declared element, from position index
RECURSIVE scanFlat(_, _, _, _)
scanFlat(flat, index, element, type) ==
  IF index > Len(flat) THEN flat
  ELSE IF flat[index].Name = element.Name
       THEN [flat EXCEPT ![index].IsTransitive = FALSE, ![index].DependencyType = type]
       ELSE scanFlat([flat EXCEPT ![index].IsTransitive = TRUE], index + 1, element, type)

\* the outer loop over the declared elements, from position index
RECURSIVE passFrom(_, _, _, _)
passFrom(flat, declared, index, type) ==
  IF index > Len(declared) THEN flat
  ELSE passFrom(scanFlat(flat, 1, declared[index], type), declared, index + 1, type)

runtimePass(flat, dependenciesTopLevel) == passFrom(flat, dependenciesTopLevel, 1, "dependency")

\* the development pass writing the runtime tag
devPass_asDependency(flat, devDependencies) == passFrom(flat, devDependencies, 1, "dependency")

devPass(flat, devDependencies) == passFrom(flat, devDependencies, 1, "devDependency")

\* lines 241-309: flatten, then the two passes; Object.keys(undefined) throws
reconcile(npmShrinkwrapContents, npmPackageContents) ==
  LET rootInfo == extractInfo(npmShrinkwrapContents.dependencies)
      flatDependencies == flattenDependencies(rootInfo.value)
      dependenciesTopLevel == extractPackageJsonInfo(npmPackageContents.dependencies)
      afterRuntime == runtimePass(flatDependencies, dependenciesTopLevel.value)
      devDependencies == extractPackageJsonInfo(npmPackageContents.devDependencies)
  IN IF rootInfo.threw \/ dependenciesTopLevel.threw \/ devDependencies.threw
     THEN Throw
     ELSE Return(devPass(afterRuntime, devDependencies.value))

\* flattenAndUniqDependencies without the test for an undefined root map
flattenAndUniqDependencies_noGuard(npmShrinkwrapContents, npmPackageContents) ==
  reconcile(npmShrinkwrapContents, npmPackageContents)

flattenAndUniqDependencies(npmShrinkwrapContents, npmPackageContents) ==
  IF npmShrinkwrapContents.dependencies = <<>>
  THEN Return(<<>>)
  ELSE reconcile(npmShrinkwrapContents, npmPackageContents)

-----------------------------------------------------------------------------
(* Inputs: command output, npm-shrinkwrap.json, package.json *)

Alphabet == {"a", "@", "%", "4", "0", "^", "<", "="}

\* every candidate token of at most MaxTokLen characters
ShortTokens == UNION {[1..k -> Alphabet] : k \in 0..MaxTokLen}

ScenarioTokens ==
  { <<"a", "@", "~", "4">>, <<"a", "@", ">", "=", "4">>, <<"a", "@", ">", "4">>,
    <<"a", "@", "<", "=", "4">>,
    <<"@", "a", "/", "b", "@", "4", ".", "0">>, <<"a", "-", "b", "@", "4", ".", "0">>,
    <<"%", "4", "0", "a", "@", "4">>, <<"a", "%", "4", "0", "b", "@", "4">>,
    <<"@", "a", "%", "4", "0", "@", "4">> }

TreePrefix == <<"-", " ">>

SmallLines ==
  { TreePrefix \o <<"b", "@", "4">>, TreePrefix \o <<"a", "@", "4">>,
    <<"a", "@", "0">>, TreePrefix \o <<"@", "a", "@", "4">>,
    <<"a", "@", "^", "4">>, <<"b", "@", "4", " ">> \o DEDUPED,
    <<"a", "@">>, <<>> }

Headers == { <<"r">>, <<"c", "@", "4">> }

RECURSIVE JoinLines(_)
JoinLines(lines) ==
  IF lines = <<>> THEN <<>>
  ELSE <<NL>> \o Head(lines) \o JoinLines(Tail(lines))

Texts ==
  { <<>> }
  \cup Headers
  \cup { <<"r", NL>> \o TreePrefix \o t : t \in ShortTokens \cup ScenarioTokens }
  \cup { h \o JoinLines(ls) : h \in Headers,
                              ls \in UNION {[1..k -> SmallLines] : k \in 1..MaxLines} }

ListStdErrs == { <<>>, <<"warning">> }
ShrinkwrapStdOuts == { <<>>, <<"a">> }
ShrinkwrapStdErrs == { <<>>, <<"created", NPM_SHRINKWRAP_JSON>>, <<"ERR">> }

TreeNames == { <<"a">>, <<"b">>, <<"c">> }
ChildNames == { <<"a">>, <<"b">> }

Leaf(n) == [name |-> n, version |-> <<"4">>, dev |-> FALSE, dependencies |-> <<>>]

Nodes ==
  { [name |-> n, version |-> <<"4">>, dev |-> d, dependencies |-> ch] :
      n \in TreeNames, d \in BOOLEAN,
      ch \in { <<>> } \cup { << <<Leaf(c)>> >> : c \in ChildNames } }

DistinctNames(entries) ==
  \A i, j \in 1..Len(entries) : i # j => entries[i].name # entries[j].name

RootMaps ==
  { m \in UNION {[1..k -> Nodes] : k \in 0..MaxRoot} : DistinctNames(m) }

Trees == { [dependencies |-> d] : d \in { <<>> } \cup { <<m>> : m \in RootMaps } }

\* the version spec package.json declares for a name
SpecOf(n) ==
  IF n = <<"a">> THEN <<"^", "4">>
  ELSE IF n = <<"b">> THEN <<"a", ":", "4">>
  ELSE <<"4">>

Declarations == { [name |-> n, spec |-> SpecOf(n)] : n \in TreeNames }

DeclaredMaps ==
  { <<>> } \cup
  { <<m>> : m \in { d \in UNION {[1..k -> Declarations] : k \in 0..MaxDeclared} :
                      DistinctNames(d) } }

Manifests == [dependencies : DeclaredMaps, devDependencies : DeclaredMaps]

-----------------------------------------------------------------------------
(* getDependencyArray *)

Init ==
  /\ manifestType \in {YARN_LOCK, NPM_SHRINKWRAP_JSON, PACKAGE_LOCK_JSON, OTHER_MANIFEST}
  /\ pc = "start"
  /\ stdout = <<>>
  /\ stderr = <<>>
  /\ obj = <<>>
  /\ objTopLevel = <<>>
  /\ result = <<>>
  /\ error = "none"

\* await exec(YARN_LIST_COMMAND) settles with some output
ExecYarnList ==
  /\ pc = "start"
  /\ manifestType = YARN_LOCK
  /\ \E out \in Texts, err \in ListStdErrs : stdout' = out /\ stderr' = err
  /\ pc' = "yarn"
  /\ UNCHANGED <<manifestType, obj, objTopLevel, result, error>>

ReturnYarnList ==
  /\ pc = "yarn"
  /\ IF stdout # <<>> /\ stderr = <<>>
     THEN /\ result' = parseYarnList(stdout)
          /\ pc' = "resolved"
          /\ error' = error
     ELSE /\ pc' = "rejected"
          /\ error' = "Error running"
          /\ result' = result
  /\ UNCHANGED <<manifestType, stdout, stderr, obj, objTopLevel>>

ExecNpmShrinkwrap ==
  /\ pc = "start"
  /\ manifestType = NPM_SHRINKWRAP_JSON
  /\ \E out \in ShrinkwrapStdOuts, err \in ShrinkwrapStdErrs : stdout' = out /\ stderr' = err
  /\ pc' = "shrinkwrap"
  /\ UNCHANGED <<manifestType, obj, objTopLevel, result, error>>

\* stdout || stderr.search(npmShrinkWrapFile) > -1, stderr seen as its words
shrinkWrapSucceeded ==
  stdout # <<>> \/ \E i \in 1..Len(stderr) : stderr[i] = NPM_SHRINKWRAP_JSON

ReturnShrinkwrap ==
  /\ pc = "shrinkwrap"
  /\ IF ~shrinkWrapSucceeded
     THEN /\ pc' = "rejected"
          /\ error' = "Unable to run"
          /\ UNCHANGED <<obj, objTopLevel, result>>
     ELSE \E o \in Trees, top \in Manifests :
            LET flatDependencies == flattenAndUniqDependencies(o, top)
            IN /\ obj' = <<o>>
               /\ objTopLevel' = <<top>>
               /\ IF flatDependencies.threw
                  THEN /\ pc' = "rejected"
                       /\ error' = "read failed"
                       /\ result' = result
                  ELSE /\ pc' = "resolved"
                       /\ error' = error
                       /\ result' = flatDependencies.value
  /\ UNCHANGED <<manifestType, stdout, stderr>>

ExecNpmList ==
  /\ pc = "start"
  /\ manifestType = PACKAGE_LOCK_JSON
  /\ \E out \in Texts, err \in ListStdErrs : stdout' = out /\ stderr' = err
  /\ pc' = "npm"
  /\ UNCHANGED <<manifestType, obj, objTopLevel, result, error>>

ReturnNpmList ==
  /\ pc = "npm"
  /\ IF stdout # <<>> /\ stderr = <<>>
     THEN /\ result' = parseNpmList(stdout)
          /\ pc' = "resolved"
          /\ error' = error
     ELSE /\ pc' = "rejected"
          /\ error' = "Error running"
          /\ result' = result
  /\ UNCHANGED <<manifestType, stdout, stderr, obj, objTopLevel>>

RejectUnsupported ==
  /\ pc = "start"
  /\ manifestType \notin {YARN_LOCK, NPM_SHRINKWRAP_JSON, PACKAGE_LOCK_JSON}
  /\ pc' = "rejected"
  /\ error' = "No valid command supplied"
  /\ UNCHANGED <<manifestType, stdout, stderr, obj, objTopLevel, result>>

\* the awaited command itself rejects: the catch block
ExecThrows ==
  /\ pc = "start"
  /\ manifestType \in {YARN_LOCK, NPM_SHRINKWRAP_JSON, PACKAGE_LOCK_JSON}
  /\ pc' = "rejected"
  /\ error' = "read failed"
  /\ UNCHANGED <<manifestType, stdout, stderr, obj, objTopLevel, result>>

Next ==
  \/ ExecYarnList
  \/ ReturnYarnList
  \/ ExecNpmShrinkwrap
  \/ ReturnShrinkwrap
  \/ ExecNpmList
  \/ ReturnNpmList
  \/ RejectUnsupported
  \/ ExecThrows

Spec == Init /\ [][Next]_vars

-----------------------------------------------------------------------------
(* Vocabulary of the properties *)

ListDone == pc = "resolved" /\ manifestType \in {YARN_LOCK, PACKAGE_LOCK_JSON}
YarnDone == pc = "resolved" /\ manifestType = YARN_LOCK
NpmDone == pc = "resolved" /\ manifestType = PACKAGE_LOCK_JSON
TreeDone == pc = "resolved" /\ manifestType = NPM_SHRINKWRAP_JSON

\* the files were read: flattenAndUniqDependencies was called
TreeCalled == manifestType = NPM_SHRINKWRAP_JSON /\ obj # <<>>

Names(list) == [i \in 1..Len(list) |-> list[i].Name]

SortedByName(list) ==
  \A i, j \in 1..Len(list) : i < j => ~StrLess(list[j].Name, list[i].Name)

HasRangeOperator(s) == \E i \in 1..Len(s) : s[i] \in {"^", "~", "<", ">"}

\* the candidate token of each line after the header
Candidates ==
  LET lines == Split(stdout, NL)
  IN { LET parts == Split(Trim(lines[i]), SP) IN parts[Len(parts)] : i \in 2..Len(lines) }

LastAt(tok) == CHOOSE k \in 1..Len(tok) : tok[k] = AT /\ \A j \in (k + 1)..Len(tok) : tok[j] # AT
OrigName(tok) == Slice(tok, 1, LastAt(tok) - 1)
OrigVersion(tok) == Slice(tok, LastAt(tok) + 1, Len(tok))

\* tok is name@version: a non-empty name whose only @ may be a leading scope marker
NameAtVersion(tok) ==
  /\ \E k \in 1..Len(tok) : tok[k] = AT
  /\ OrigName(tok) # <<>>
  /\ OrigVersion(tok) # <<>>
  /\ \A k \in 2..Len(OrigName(tok)) : OrigName(tok)[k] # AT

\* index of the first record of list named n, 0 when there is none
FirstNamed(list, n) ==
  LET hits == {i \in 1..Len(list) : list[i].Name = n}
  IN IF hits = {} THEN 0 ELSE CHOOSE i \in hits : \A j \in hits : i <= j

DeclaredNames(optMap) ==
  IF optMap = <<>> THEN {} ELSE {optMap[1][i].name : i \in 1..Len(optMap[1])}

\* the names of every node of a dependency map, parent before children
RECURSIVE PreOrderNames(_)
PreOrderNames(map) ==
  IF map = <<>> THEN <<>>
  ELSE <<Head(map).name>>
       \o (IF Head(map).dependencies = <<>> THEN <<>>
           ELSE PreOrderNames(Head(map).dependencies[1]))
       \o PreOrderNames(Tail(map))

-----------------------------------------------------------------------------
(* Properties *)

\* C1: whatever the format selector, the returned sequence holds no two
\* records with the same name and version.
C1_UniqueIdentifiers ==
  pc = "resolved" =>
    \A i, j \in 1..Len(result) :
      i # j => ~(result[i].Name = result[j].Name /\ result[i].Version = result[j].Version)

\* C1 witness: a yarn listing that names one package twice came back with it once
C1_Witness ==
  /\ YarnDone
  /\ stdout = <<"r", NL>> \o TreePrefix \o <<"a", "@", "4", NL>> \o TreePrefix \o <<"a", "@", "4">>
  /\ Len(result) = 1

C4_DeclaredNamesAreDirect ==
  TreeDone =>
    \A n \in DeclaredNames(objTopLevel[1].dependencies)
               \cup DeclaredNames(objTopLevel[1].devDependencies) :
      FirstNamed(result, n) # 0 => ~result[FirstNamed(result, n)].IsTransitive

\* C5: the flattener returns one record for every node of the tree at every
\* depth, in depth-first pre-order.
C5_FlattenEveryNodePreOrder ==
  (TreeDone /\ obj[1].dependencies # <<>>) =>
    Names(result) = PreOrderNames(obj[1].dependencies[1])

\* C6: with the tree present, a manifest that omits dependencies or
\* devDependencies does not make the call fail.
C6_OmittedManifestMapTolerated ==
  ( /\ TreeCalled
    /\ obj[1].dependencies # <<>>
    /\ (objTopLevel[1].dependencies = <<>> \/ objTopLevel[1].devDependencies = <<>>) )
  => pc = "resolved"

\* C7: every record of the line-list parsers has a non-empty name and a
\* present, non-empty version.
C7_NameAndVersionNonEmpty ==
  ListDone =>
    \A i \in 1..Len(result) :
      /\ result[i].Name # <<>>
      /\ result[i].Version # <<>>
      /\ result[i].Version[1] # <<>>

\* C8: when the tree has no root dependencies map the tree path returns the
\* empty sequence and does not fail, whatever the manifest contains.
C8_AbsentRootMapEmptyResult ==
  (TreeCalled /\ obj[1].dependencies = <<>>) => (pc = "resolved" /\ result = <<>>)

\* C8 witness: a tree without root map met a manifest without dependencies map
C8_Witness ==
  /\ TreeCalled
  /\ obj[1].dependencies = <<>>
  /\ objTopLevel[1].dependencies = <<>>
  /\ pc = "resolved"

\* C9: every accepted candidate name@version yields a record with that very
\* name and that very version.
C9_NameVersionRoundTrip ==
  ListDone =>
    \A tok \in Candidates :
      ( /\ NameAtVersion(tok)
        /\ ~HasRangeOperator(tok)
        /\ tok # DEDUPED )
      => \E i \in 1..Len(result) :
           result[i].Name = OrigName(tok) /\ result[i].Version = <<OrigVersion(tok)>>

\* C10: a name declared in both manifest maps that matches a flattened record
\* ends reconciliation as a devDependency.
C10_DeclaredInBothEndsDev ==
  TreeDone =>
    \A n \in DeclaredNames(objTopLevel[1].dependencies)
               \cap DeclaredNames(objTopLevel[1].devDependencies) :
      FirstNamed(result, n) # 0 =>
        result[FirstNamed(result, n)].DependencyType = "devDependency"

\* C10 witness: a declared in both maps and present in the tree
C10_Witness ==
  /\ TreeDone
  /\ <<"a">> \in DeclaredNames(objTopLevel[1].dependencies)
                   \cap DeclaredNames(objTopLevel[1].devDependencies)
  /\ FirstNamed(result, <<"a">>) # 0
  /\ result[FirstNamed(result, <<"a">>)].DependencyType = "devDependency"

====
